---- MODULE Spec2Model ----
(***************************************************************************)
(* MDBEM (Multi-Directional Boundary Enhancement Module),                  *)
(* src/MLS-YOLO/MDBEM.py.  One instance owns three bias-free convolution   *)
(* weights; forward(x) mixes channels, takes the eight shift differences,  *)
(* sums them, refines the sum with a depthwise and a pointwise convolution *)
(* and adds the result to x.                                               *)
(*                                                                         *)
(* Tensors are 4-D (batch, channel, row, column), indices from 0 as in the *)
(* source.  Elements are integers: the arithmetic is exact, floating-point *)
(* rounding, infinities and NaN are outside the model.                     *)
(***************************************************************************)
EXTENDS Integers, Sequences, FiniteSets, TLC

\* Largest batch size, channel count, height and width of the tensors tried.
MaxN == 1
MaxC == 2
MaxH == 3
MaxW == 3

----------------------------------------------------------------------------
\* Tensors

\* The index set of a tensor of the given shape (empty when a size is 0).
Idx(shape) ==
  (0..(shape[1] - 1)) \X (0..(shape[2] - 1)) \X (0..(shape[3] - 1)) \X (0..(shape[4] - 1))

\* A tensor of the given shape whose element at index i is F(i).  (@@ <<>>
\* leaves the function as it is and has TLC compute its elements once.)
Tensor(shape, F(_)) ==
  [shape |-> shape, d |-> [i \in Idx(shape) |-> F(i)] @@ <<>>]

\* No tensor: the value of an expression that raised, or of a name not bound.
NoTensor == [shape |-> <<>>, d |-> <<>>]

IsNone(t) == t.shape = <<>>

\* A Python number used as an operand of a tensor operation.
Scalar(v) == Tensor(<<1, 1, 1, 1>>, LAMBDA i : v)

\* Two shapes broadcast when each pair of sizes is equal or has a 1.
Broadcastable(s, t) ==
  \A k \in 1..4 : s[k] = t[k] \/ s[k] = 1 \/ t[k] = 1

BroadcastShape(s, t) ==
  [k \in 1..4 |-> IF s[k] = 1 THEN t[k] ELSE s[k]]

\* The element of a that the broadcast reads for index i of the result.
BroadcastAt(a, i) ==
  a.d[<<IF a.shape[1] = 1 THEN 0 ELSE i[1], IF a.shape[2] = 1 THEN 0 ELSE i[2],
        IF a.shape[3] = 1 THEN 0 ELSE i[3], IF a.shape[4] = 1 THEN 0 ELSE i[4]>>]

\* a + b, elementwise, into a new tensor; raises when the shapes do not broadcast.
TAdd(a, b) ==
  IF IsNone(a) \/ IsNone(b) THEN NoTensor
  ELSE IF ~Broadcastable(a.shape, b.shape) THEN NoTensor
  ELSE Tensor(BroadcastShape(a.shape, b.shape),
              LAMBDA i : BroadcastAt(a, i) + BroadcastAt(b, i))

\* a - b, elementwise, into a new tensor; raises when the shapes do not broadcast.
TSub(a, b) ==
  IF IsNone(a) \/ IsNone(b) THEN NoTensor
  ELSE IF ~Broadcastable(a.shape, b.shape) THEN NoTensor
  ELSE Tensor(BroadcastShape(a.shape, b.shape),
              LAMBDA i : BroadcastAt(a, i) - BroadcastAt(b, i))

\* Python's slice bounds: an absent bound is <<>>, a present one <<k>>; a
\* negative k counts from the end, and both bounds are clamped to 0..len.
SliceClamp(k, len) ==
  IF k < 0 THEN (IF k + len < 0 THEN 0 ELSE k + len)
  ELSE (IF k > len THEN len ELSE k)

SliceStart(b, len) == IF b = <<>> THEN 0 ELSE SliceClamp(b[1], len)

SliceStop(b, len) == IF b = <<>> THEN len ELSE SliceClamp(b[1], len)

SliceLen(lo, hi, len) ==
  IF SliceStop(hi, len) > SliceStart(lo, len)
  THEN SliceStop(hi, len) - SliceStart(lo, len) ELSE 0

\* x[:, :, rlo:rhi, clo:chi]
Slice(x, rlo, rhi, clo, chi) ==
  LET r0 == SliceStart(rlo, x.shape[3])
      c0 == SliceStart(clo, x.shape[4])
  IN  Tensor(<<x.shape[1], x.shape[2],
               SliceLen(rlo, rhi, x.shape[3]), SliceLen(clo, chi, x.shape[4])>>,
             LAMBDA i : x.d[<<i[1], i[2], i[3] + r0, i[4] + c0>>])

\* A padding that reads its tuple as (top, bottom, left, right).
PadTransposed(x, pad, value) ==
  LET left == pad[3]
      top == pad[1]
      h == x.shape[3]
      w == x.shape[4]
  IN  Tensor(<<x.shape[1], x.shape[2], h + pad[1] + pad[2], w + pad[3] + pad[4]>>,
             LAMBDA i : IF /\ i[3] - top >= 0 /\ i[3] - top < h
                           /\ i[4] - left >= 0 /\ i[4] - left < w
                        THEN x.d[<<i[1], i[2], i[3] - top, i[4] - left>>]
                        ELSE value)

\* A padding that repeats the nearest cell of x (mode='replicate').
PadReplicate(x, pad, value) ==
  LET h == x.shape[3]
      w == x.shape[4]
      Near(k, len) == IF k < 0 THEN 0 ELSE IF k > len - 1 THEN len - 1 ELSE k
  IN  Tensor(<<x.shape[1], x.shape[2], h + pad[3] + pad[4], w + pad[1] + pad[2]>>,
             LAMBDA i : IF h = 0 \/ w = 0 THEN value
                        ELSE x.d[<<i[1], i[2], Near(i[3] - pad[3], h), Near(i[4] - pad[1], w)>>])

\* F.pad(x, (left, right, top, bottom), value=value): constant padding of the
\* last two axes.
Pad(x, pad, value) ==
  LET left == pad[1]
      top == pad[3]
      h == x.shape[3]
      w == x.shape[4]
  IN  Tensor(<<x.shape[1], x.shape[2], h + pad[3] + pad[4], w + pad[1] + pad[2]>>,
             LAMBDA i : IF /\ i[3] - top >= 0 /\ i[3] - top < h
                           /\ i[4] - left >= 0 /\ i[4] - left < w
                        THEN x.d[<<i[1], i[2], i[3] - top, i[4] - left>>]
                        ELSE value)

----------------------------------------------------------------------------
\* Convolutions (torch.nn.Conv2d, bias=False, stride 1)

RECURSIVE SeqSum(_)
SeqSum(s) == IF s = <<>> THEN 0 ELSE s[1] + SeqSum(Tail(s))

\* The initial values a weight may hold: the framework draws them at random,
\* the model from a few fillings.  i = <<out channel, in channel, row, column>>.
WeightValue(kind, i) ==
  CASE kind = "zero" -> 0
    [] kind = "eye" -> IF i[1] = i[2] THEN 1 ELSE 0
    [] kind = "skew" -> 2 * i[1] - i[2] + 2
    [] kind = "ramp" -> 3 * i[3] + i[4] + i[1] + 1

\* A constructor that checks none of its arguments.
Conv2dInitUnchecked(in_ch, out_ch, kernel_size, groups, kind) ==
  Tensor(<<out_ch, IF groups = 0 THEN in_ch ELSE in_ch \div groups, kernel_size, kernel_size>>,
         LAMBDA i : WeightValue(kind, i))

\* nn.Conv2d(in_channels, out_channels, kernel_size, groups=groups, bias=False):
\* the weight it allocates, of shape (out_channels, in_channels // groups, k, k),
\* or NoTensor when the constructor raises (groups not positive, channels not
\* divisible by groups, a negative size).
Conv2dInit(in_ch, out_ch, kernel_size, groups, kind) ==
  IF groups <= 0 THEN NoTensor
  ELSE IF in_ch % groups # 0 \/ out_ch % groups # 0 THEN NoTensor
  ELSE IF out_ch < 0 \/ in_ch \div groups < 0 THEN NoTensor
  ELSE Tensor(<<out_ch, in_ch \div groups, kernel_size, kernel_size>>,
              LAMBDA i : WeightValue(kind, i))

\* The cross-correlation that a Conv2d without bias computes: stride 1, zero
\* padding of `padding` cells on each border, the channels in `groups` groups.
ConvOut(x, weight, padding, groups) ==
  LET cin == weight.shape[2]
      kh == weight.shape[3]
      kw == weight.shape[4]
      coutg == weight.shape[1] \div groups
      XP(n, c, r, q) ==
        IF c < x.shape[2] /\ r >= 0 /\ r < x.shape[3] /\ q >= 0 /\ q < x.shape[4]
        THEN x.d[<<n, c, r, q>>] ELSE 0
      Term(i, k) ==
        LET ci == (k - 1) \div (kh * kw)
            kr == ((k - 1) % (kh * kw)) \div kw
            kc == (k - 1) % kw
        IN  weight.d[<<i[2], ci, kr, kc>>]
              * XP(i[1], (i[2] \div coutg) * cin + ci, i[3] + kr - padding, i[4] + kc - padding)
  IN  Tensor(<<x.shape[1], weight.shape[1],
               x.shape[3] + 2 * padding - kh + 1, x.shape[4] + 2 * padding - kw + 1>>,
             LAMBDA i : SeqSum([k \in 1..(cin * kh * kw) |-> Term(i, k)]))

\* A Conv2d that does not look at the channel count of its input.
Conv2dForwardNoCheck(x, weight, padding, groups) ==
  IF IsNone(x) \/ IsNone(weight) THEN NoTensor
  ELSE ConvOut(x, weight, padding, groups)

\* A Conv2d with a bias of 1 on every output channel.
Conv2dForwardBias(x, weight, padding, groups) ==
  IF IsNone(x) \/ IsNone(weight) THEN NoTensor
  ELSE IF x.shape[2] # weight.shape[2] * groups THEN NoTensor
  ELSE TAdd(ConvOut(x, weight, padding, groups), Scalar(1))

\* Calling a Conv2d module on x: raises (NoTensor) when x does not have
\* weight.shape[1] * groups channels, else the convolution of x with weight.
Conv2dForward(x, weight, padding, groups) ==
  IF IsNone(x) \/ IsNone(weight) THEN NoTensor
  ELSE IF x.shape[2] # weight.shape[2] * groups THEN NoTensor
  ELSE ConvOut(x, weight, padding, groups)

----------------------------------------------------------------------------
\* MDBEM.shift and the body of MDBEM.forward

directions ==
  <<"up", "down", "left", "right", "upleft", "upright", "downleft", "downright">>

\* The row and column offset of the cell a shift in the named direction reads.
Offset(direction) ==
  CASE direction = "up" -> <<1, 0>>
    [] direction = "down" -> <<-1, 0>>
    [] direction = "left" -> <<0, 1>>
    [] direction = "right" -> <<0, -1>>
    [] direction = "upleft" -> <<1, 1>>
    [] direction = "upright" -> <<1, -1>>
    [] direction = "downleft" -> <<-1, 1>>
    [] direction = "downright" -> <<-1, -1>>

\* x moved by one cell: cell (r, q) reads (r + dr, q + dq), and when that is
\* outside the grid it reads zero, or with wrap the cell of the opposite edge.
Translate(x, dr, dq, wrap) ==
  LET h == x.shape[3]
      w == x.shape[4]
  IN  Tensor(x.shape,
             LAMBDA i :
               IF i[3] + dr >= 0 /\ i[3] + dr < h /\ i[4] + dq >= 0 /\ i[4] + dq < w
               THEN x.d[<<i[1], i[2], i[3] + dr, i[4] + dq>>]
               ELSE IF wrap
                    THEN x.d[<<i[1], i[2], (i[3] + dr + h) % h, (i[4] + dq + w) % w>>]
                    ELSE 0)

\* A shift that wraps around (torch.roll) instead of padding.
shiftRoll(x, direction) ==
  Translate(x, Offset(direction)[1], Offset(direction)[2], TRUE)

\* A shift that moves the map the other way.
shiftOpposite(x, direction) ==
  Translate(x, 0 - Offset(direction)[1], 0 - Offset(direction)[2], FALSE)

\* A shift that leaves an axis of size 1 alone.
shiftKeepUnit(x, direction) ==
  Translate(x, IF x.shape[3] = 1 THEN 0 ELSE Offset(direction)[1],
               IF x.shape[4] = 1 THEN 0 ELSE Offset(direction)[2], FALSE)

\* MDBEM.shift(x, direction); a direction that matches no branch falls off the
\* end of the method (None).
shift(x, direction) ==
  CASE direction = "up" -> Pad(Slice(x, <<1>>, <<>>, <<>>, <<>>), <<0, 0, 0, 1>>, 0)
    [] direction = "down" -> Pad(Slice(x, <<>>, <<-1>>, <<>>, <<>>), <<0, 0, 1, 0>>, 0)
    [] direction = "left" -> Pad(Slice(x, <<>>, <<>>, <<1>>, <<>>), <<0, 1, 0, 0>>, 0)
    [] direction = "right" -> Pad(Slice(x, <<>>, <<>>, <<>>, <<-1>>), <<1, 0, 0, 0>>, 0)
    [] direction = "upleft" -> Pad(Slice(x, <<1>>, <<>>, <<1>>, <<>>), <<0, 1, 0, 1>>, 0)
    [] direction = "upright" -> Pad(Slice(x, <<1>>, <<>>, <<>>, <<-1>>), <<1, 0, 0, 1>>, 0)
    [] direction = "downleft" -> Pad(Slice(x, <<>>, <<-1>>, <<1>>, <<>>), <<0, 1, 1, 0>>, 0)
    [] direction = "downright" -> Pad(Slice(x, <<>>, <<-1>>, <<>>, <<-1>>), <<1, 0, 1, 0>>, 0)
    [] OTHER -> NoTensor

\* Python's sum(list): 0 + list[0] + list[1] + ..., left to right.
RECURSIVE SumFrom(_, _)
SumFrom(acc, list) ==
  IF list = <<>> THEN acc ELSE SumFrom(TAdd(acc, list[1]), Tail(list))

\* A sum that leaves out the first element.
sumSkipFirst(list) == SumFrom(Scalar(0), Tail(list))

sum(list) == SumFrom(Scalar(0), list)

\* `x += refined_feat; return x`: the sum is written into the caller's tensor.
ResidualInPlace(x, refined) == [x |-> TAdd(x, refined), out |-> TAdd(x, refined)]

\* `return x + refined_feat`: the sum is a new tensor and x is left as it was.
\* The record holds x after the statement and the value returned.
Residual(x, refined) == [x |-> x, out |-> TAdd(x, refined)]

\* The values `shifted` takes in the loop of forward, one per direction.
ShiftedList(f) == [k \in 1..Len(directions) |-> shift(f, directions[k])]

\* direction_feats after the loop of forward.
DirectionFeats(f) == [k \in 1..Len(directions) |-> TSub(f, shift(f, directions[k]))]

----------------------------------------------------------------------------
\* The inputs tried

\* A filling of an input tensor: one value everywhere, all cells different and
\* nonzero, or zero but for one cell (a corner, an edge or the middle) of every
\* channel's map.
Patterns(h, w) ==
  {[kind |-> "const", v |-> v, r |-> 0, q |-> 0] : v \in {0, 1}}
    \cup {[kind |-> "ramp", v |-> 1, r |-> 0, q |-> 0]}
    \cup {[kind |-> "impulse", v |-> 1, r |-> r, q |-> q] :
            r \in {0, h \div 2}, q \in {0, w \div 2}}

PatternValue(p, shape, i) ==
  CASE p.kind = "const" -> p.v
    [] p.kind = "ramp" ->
         1 + i[4] + shape[4] * (i[3] + shape[3] * (i[2] + shape[2] * i[1]))
    [] p.kind = "impulse" ->
         IF i[3] = p.r /\ i[4] = p.q THEN p.v + i[2] + i[1] ELSE 0

Input(shape, p) == Tensor(shape, LAMBDA i : PatternValue(p, shape, i))

Inputs ==
  UNION {{Input(<<n, c, h, w>>, p) : p \in Patterns(h, w)} :
           <<n, c, h, w>> \in (1..MaxN) \X (1..MaxC) \X (1..MaxH) \X (1..MaxW)}

\* The inputs of the runs that call forward again and again.
RepeatInputs ==
  UNION {{Input(<<MaxN, c, h, MaxW>>, p) :
            p \in {q \in Patterns(h, MaxW) : q.kind = "ramp" \/ (q.kind = "impulse" /\ q.r = 0 /\ q.q = 0)}} :
           <<c, h>> \in (1..MaxC) \X {1, MaxH}}

\* The values in_channels is given: positive, zero and negative.
ChannelArgs == (0 - MaxC)..MaxC

\* The fillings of <<conv, depthwise, pointwise>> an instance may start with.
WeightKinds ==
  {<<"eye", "ramp", "skew">>, <<"skew", "ramp", "skew">>, <<"zero", "ramp", "skew">>,
   <<"eye", "zero", "skew">>, <<"skew", "ramp", "zero">>, <<"eye", "zero", "zero">>}

----------------------------------------------------------------------------
\* The state

VARIABLES
  pc,              \* "new": before the constructor; "failed": the constructor
                   \* raised; "idle": an instance, no call; "called": forward
                   \* entered with x; "returned": forward has returned or raised
  in_channels,     \* the argument of __init__
  conv,            \* self.conv.weight
  depthwise,       \* self.depthwise.weight
  pointwise,       \* self.pointwise.weight
  x,               \* the caller's input tensor
  feat,            \* locals of forward ...
  shifted,         \* ... (the values of the loop variable, in order)
  direction_feats,
  boundary_feat,
  refined_feat,
  out,             \* the value forward returns
  outcome,         \* "none", "ok" or "raised": how the last operation ended
  first            \* the input and the output of the instance's first call

weights == <<conv, depthwise, pointwise>>
locals == <<feat, shifted, direction_feats, boundary_feat, refined_feat>>
vars == <<pc, in_channels, conv, depthwise, pointwise, x, feat, shifted,
          direction_feats, boundary_feat, refined_feat, out, outcome, first>>

NoCall == [x |-> NoTensor, out |-> NoTensor]

Init ==
  /\ pc = "new"
  /\ in_channels = 0
  /\ conv = NoTensor /\ depthwise = NoTensor /\ pointwise = NoTensor
  /\ x = NoTensor
  /\ feat = NoTensor /\ shifted = <<>> /\ direction_feats = <<>>
  /\ boundary_feat = NoTensor /\ refined_feat = NoTensor
  /\ out = NoTensor
  /\ outcome = "none"
  /\ first = NoCall

\* MDBEM.__init__(in_channels): the three Conv2d constructors in order; the
\* first that raises ends the construction and no instance is returned.
Construct ==
  /\ pc = "new"
  /\ \E c \in ChannelArgs, k \in WeightKinds :
       LET w1 == Conv2dInit(c, c, 1, 1, k[1])
           w2 == IF IsNone(w1) THEN NoTensor ELSE Conv2dInit(c, c, 3, c, k[2])
           w3 == IF IsNone(w2) THEN NoTensor ELSE Conv2dInit(c, c, 1, 1, k[3])
       IN  /\ in_channels' = c
           /\ IF IsNone(w3)
              THEN /\ pc' = "failed"
                   /\ outcome' = "raised"
                   /\ conv' = NoTensor /\ depthwise' = NoTensor /\ pointwise' = NoTensor
              ELSE /\ pc' = "idle"
                   /\ outcome' = "ok"
                   /\ conv' = w1 /\ depthwise' = w2 /\ pointwise' = w3
  /\ UNCHANGED <<x, out, first>>
  /\ UNCHANGED locals

\* A caller enters forward with an input tensor.
Call ==
  /\ pc = "idle"
  /\ \E t \in Inputs : x' = t
  /\ pc' = "called"
  /\ outcome' = "none"
  /\ UNCHANGED <<in_channels, out, first>>
  /\ UNCHANGED weights
  /\ UNCHANGED locals

CallRepeat ==
  /\ pc = "idle"
  /\ \E t \in RepeatInputs : x' = t
  /\ pc' = "called"
  /\ outcome' = "none"
  /\ UNCHANGED <<in_channels, out, first>>
  /\ UNCHANGED weights
  /\ UNCHANGED locals

\* MDBEM.forward(x), from entry to its return or to the exception that leaves it.
forward ==
  /\ pc = "called"
  /\ LET f == Conv2dForward(x, conv, 0, 1)
         sh == ShiftedList(f)
         df == DirectionFeats(f)
         bf == sum(df)
         rf == Conv2dForward(Conv2dForward(bf, depthwise, 1, in_channels), pointwise, 0, 1)
         res == Residual(x, rf)
     IN  IF IsNone(f) \/ IsNone(res.out)
         THEN /\ outcome' = "raised"
              /\ x' = x
              /\ feat' = NoTensor /\ shifted' = <<>> /\ direction_feats' = <<>>
              /\ boundary_feat' = NoTensor /\ refined_feat' = NoTensor
              /\ out' = NoTensor
         ELSE /\ outcome' = "ok"
              /\ feat' = f /\ shifted' = sh /\ direction_feats' = df
              /\ boundary_feat' = bf /\ refined_feat' = rf
              /\ out' = res.out
              /\ x' = res.x
  /\ pc' = "returned"
  /\ UNCHANGED <<in_channels, first>>
  /\ UNCHANGED weights

\* The caller takes the result; the locals of the call are gone.
Return ==
  /\ pc = "returned"
  /\ pc' = "idle"
  /\ x' = NoTensor /\ out' = NoTensor
  /\ feat' = NoTensor /\ shifted' = <<>> /\ direction_feats' = <<>>
  /\ boundary_feat' = NoTensor /\ refined_feat' = NoTensor
  /\ outcome' = "none"
  /\ UNCHANGED <<in_channels, first>>
  /\ UNCHANGED weights

\* As Return, and the first completed call of the instance is remembered.
ReturnRecord ==
  /\ pc = "returned"
  /\ pc' = "idle"
  /\ first' = IF first = NoCall /\ outcome = "ok" THEN [x |-> x, out |-> out] ELSE first
  /\ x' = NoTensor /\ out' = NoTensor
  /\ feat' = NoTensor /\ shifted' = <<>> /\ direction_feats' = <<>>
  /\ boundary_feat' = NoTensor /\ refined_feat' = NoTensor
  /\ outcome' = "none"
  /\ UNCHANGED in_channels
  /\ UNCHANGED weights

Next == Construct \/ Call \/ forward \/ Return

Spec == Init /\ [][Next]_vars

NextRepeat == Construct \/ CallRepeat \/ forward \/ ReturnRecord

SpecRepeat == Init /\ [][NextRepeat]_vars

----------------------------------------------------------------------------
\* Vocabulary of the properties

Returned == pc = "returned" /\ outcome = "ok"

AllZero(t) == \A i \in Idx(t.shape) : t.d[i] = 0

NonZero(t) == \A i \in Idx(t.shape) : t.d[i] # 0

\* The value of t at row r, column q of the map of batch n, channel c; zero
\* when (r, q) is outside the grid.
At0(t, n, c, r, q) ==
  IF r >= 0 /\ r < t.shape[3] /\ q >= 0 /\ q < t.shape[4] THEN t.d[<<n, c, r, q>>] ELSE 0

Diagonals == {"upleft", "upright", "downleft", "downright"}

\* The cells of an h x w map that a shift in direction d fills with zero.
ZeroFilled(d, r, q, h, w) ==
  CASE d = "up" -> r = h - 1
    [] d = "down" -> r = 0
    [] d = "left" -> q = w - 1
    [] d = "right" -> q = 0
    [] d = "upleft" -> r = h - 1 \/ q = w - 1
    [] d = "upright" -> r = h - 1 \/ q = 0
    [] d = "downleft" -> r = 0 \/ q = w - 1
    [] d = "downright" -> r = 0 \/ q = 0

\* Each map of t holds one value at all its positions.
Flat(t) == \A i \in Idx(t.shape) : t.d[i] = t.d[<<i[1], i[2], 0, 0>>]

----------------------------------------------------------------------------
\* Properties

\* C1: a call of forward with an input of in_channels channels (H, W >= 1)
\* returns a tensor of the input's shape; feat, each of the eight shift
\* results, each difference and boundary_feat have that shape too.
ShapePreserved ==
  (pc = "returned" /\ x.shape[2] = in_channels) =>
    /\ outcome = "ok"
    /\ out.shape = x.shape
    /\ DOMAIN out.d = Idx(x.shape)
    /\ feat.shape = x.shape
    /\ Len(shifted) = 8 /\ Len(direction_feats) = 8
    /\ \A k \in 1..8 : /\ shifted[k].shape = feat.shape
                       /\ direction_feats[k].shape = feat.shape
    /\ boundary_feat.shape = feat.shape
    /\ refined_feat.shape = feat.shape

ShapePreservedWitness ==
  Returned /\ x.shape = <<1, 2, 3, 2>> /\ out.shape = <<1, 2, 3, 2>>

\* C3: the cells of shift(feat, d) that have no source cell hold zero, also
\* where the opposite edge of feat holds nonzero values: up the last row, down
\* the first row, left the last column, right the first column, and the
\* diagonals the row and the column of their two parts.
BorderZeroPadded ==
  Returned =>
    \A k \in 1..8 : \A i \in Idx(feat.shape) :
      ZeroFilled(directions[k], i[3], i[4], feat.shape[3], feat.shape[4])
        => shifted[k].d[i] = 0

BorderZeroPaddedWitness ==
  /\ Returned
  /\ feat.shape[3] >= 2 /\ feat.shape[4] >= 2
  /\ NonZero(feat)
  /\ \A i \in Idx(feat.shape) : i[3] = feat.shape[3] - 1 => shifted[1].d[i] = 0

\* C8 as stated: shift(feat, d) at (r, c) holds feat at the neighbour of (r, c)
\* one step in direction d (up (r-1, c), down (r+1, c), left (r, c-1), right
\* (r, c+1), the diagonals likewise), and zero when that neighbour is outside.
ShiftReadsNamedNeighbour ==
  Returned =>
    \A k \in 1..8 : \A i \in Idx(feat.shape) :
      shifted[k].d[i] =
        At0(feat, i[1], i[2], i[3] - Offset(directions[k])[1], i[4] - Offset(directions[k])[2])

\* C8 amended: shift(feat, d) moves the content of feat one cell in direction
\* d, so the cell (r, c) holds feat at the neighbour one step AGAINST d, and
\* zero when that neighbour is outside the grid: up reads (r+1, c), down
\* (r-1, c), left (r, c+1), right (r, c-1), upleft (r+1, c+1), upright
\* (r+1, c-1), downleft (r-1, c+1), downright (r-1, c-1); the offset is
\* exactly one cell on each axis involved, and the shape is that of feat.
ShiftReadsOppositeNeighbour ==
  Returned =>
    \A k \in 1..8 :
      /\ shifted[k].shape = feat.shape
      /\ \A i \in Idx(feat.shape) :
           shifted[k].d[i] =
             CASE directions[k] = "up" -> At0(feat, i[1], i[2], i[3] + 1, i[4])
               [] directions[k] = "down" -> At0(feat, i[1], i[2], i[3] - 1, i[4])
               [] directions[k] = "left" -> At0(feat, i[1], i[2], i[3], i[4] + 1)
               [] directions[k] = "right" -> At0(feat, i[1], i[2], i[3], i[4] - 1)
               [] directions[k] = "upleft" -> At0(feat, i[1], i[2], i[3] + 1, i[4] + 1)
               [] directions[k] = "upright" -> At0(feat, i[1], i[2], i[3] + 1, i[4] - 1)
               [] directions[k] = "downleft" -> At0(feat, i[1], i[2], i[3] - 1, i[4] + 1)
               [] directions[k] = "downright" -> At0(feat, i[1], i[2], i[3] - 1, i[4] - 1)

\* A 3 x 3 feat with nine different nonzero values, shifted up: the top row of
\* the result is the middle row of feat.
ShiftReadsOppositeNeighbourWitness ==
  /\ Returned
  /\ feat.shape = <<1, 1, 3, 3>>
  /\ \A i \in Idx(feat.shape) : feat.d[i] = 1 + i[4] + 3 * i[3]
  /\ shifted[1].d[<<0, 0, 0, 0>>] = 4

\* C9: an input with H = 1 or W = 1 is served: forward returns a tensor of the
\* input's shape, and every shift along an axis of size 1 (H = 1: up, down and
\* the diagonals; W = 1: left, right and the diagonals) is all zero and of
\* feat's shape, so its difference is feat itself.
DegenerateSizes ==
  (pc = "returned" /\ x.shape[2] = in_channels /\ (x.shape[3] = 1 \/ x.shape[4] = 1)) =>
    /\ outcome = "ok"
    /\ out.shape = x.shape
    /\ \A k \in 1..8 :
         (\/ (feat.shape[3] = 1 /\ directions[k] \in {"up", "down"} \cup Diagonals)
          \/ (feat.shape[4] = 1 /\ directions[k] \in {"left", "right"} \cup Diagonals))
           => /\ shifted[k].shape = feat.shape
              /\ AllZero(shifted[k])
              /\ direction_feats[k] = feat

DegenerateSizesWitness ==
  /\ Returned
  /\ feat.shape[3] = 1 /\ feat.shape[4] >= 2
  /\ NonZero(feat)
  /\ AllZero(shifted[1]) /\ ~AllZero(shifted[3])

\* The sum of feat over the neighbours of (r, q) that lie inside the grid.
NeighbourSum(t, i) ==
  At0(t, i[1], i[2], i[3] - 1, i[4] - 1) + At0(t, i[1], i[2], i[3] - 1, i[4])
    + At0(t, i[1], i[2], i[3] - 1, i[4] + 1) + At0(t, i[1], i[2], i[3], i[4] - 1)
    + At0(t, i[1], i[2], i[3], i[4] + 1) + At0(t, i[1], i[2], i[3] + 1, i[4] - 1)
    + At0(t, i[1], i[2], i[3] + 1, i[4]) + At0(t, i[1], i[2], i[3] + 1, i[4] + 1)

Reverse(list) == [k \in 1..Len(list) |-> list[Len(list) + 1 - k]]

\* C10: boundary_feat at (r, c) is 8 * feat(r, c) minus the sum of feat over
\* the neighbours of (r, c) inside the grid, with no division by the number
\* of directions, and adding the eight differences in the reverse order gives
\* the same map; a 3 x 3 feat that is 1 at the centre and 0 elsewhere gives 8
\* at the centre and -1 at the eight other cells.
BoundaryIsLaplacian ==
  Returned =>
    /\ boundary_feat.shape = feat.shape
    /\ \A i \in Idx(feat.shape) :
         boundary_feat.d[i] = 8 * feat.d[i] - NeighbourSum(feat, i)
    /\ SumFrom(Scalar(0), Reverse(direction_feats)) = boundary_feat
    /\ (/\ feat.shape = <<1, 1, 3, 3>>
        /\ \A i \in Idx(feat.shape) : feat.d[i] = IF i[3] = 1 /\ i[4] = 1 THEN 1 ELSE 0)
         => \A i \in Idx(feat.shape) :
              boundary_feat.d[i] = IF i[3] = 1 /\ i[4] = 1 THEN 8 ELSE -1

BoundaryIsLaplacianWitness ==
  /\ Returned
  /\ feat.shape = <<1, 1, 3, 3>>
  /\ \A i \in Idx(feat.shape) : feat.d[i] = IF i[3] = 1 /\ i[4] = 1 THEN 1 ELSE 0
  /\ boundary_feat.d[<<0, 0, 1, 1>>] = 8
  /\ boundary_feat.d[<<0, 0, 0, 2>>] = -1

\* C7: the output is input + refined_feat, cell by cell, and no convolution
\* has a bias: when the depthwise or the pointwise weight is all zero,
\* refined_feat is all zero and forward returns its input, whatever the
\* channel-mix weight and boundary_feat are.
IdentityPassThrough ==
  Returned =>
    /\ \A i \in Idx(x.shape) : out.d[i] = x.d[i] + refined_feat.d[i]
    /\ (AllZero(depthwise) \/ AllZero(pointwise)) => (AllZero(refined_feat) /\ out = x)

\* The scenario: C = 1, N = 1, a 3 x 3 input with a single 1 at the centre,
\* channel mix 1, depthwise and pointwise zero.
IdentityPassThroughWitness ==
  /\ Returned
  /\ x.shape = <<1, 1, 3, 3>>
  /\ \A i \in Idx(x.shape) : x.d[i] = IF i[3] = 1 /\ i[4] = 1 THEN 1 ELSE 0
  /\ conv.d[<<0, 0, 0, 0>>] = 1
  /\ AllZero(depthwise) /\ AllZero(pointwise)
  /\ ~AllZero(boundary_feat)
  /\ out = x

\* C2 as stated: when every map of feat holds one value at all its positions
\* (any value), each of the eight differences is zero at every cell,
\* boundary_feat is zero everywhere and forward returns its input.
FlatFeatGivesIdentity ==
  (Returned /\ Flat(feat)) =>
    /\ \A k \in 1..8 : AllZero(direction_feats[k])
    /\ AllZero(boundary_feat)
    /\ out = x

\* The number of directions whose shift zero-fills the cell (r, q).
ZeroFilledCount(r, q, h, w) ==
  Cardinality({k \in 1..8 : ZeroFilled(directions[k], r, q, h, w)})

\* C2 amended: when every map of feat holds one value at all its positions,
\* the difference feat - shift(feat, d) is zero at every cell whose source
\* cell is inside the grid and equals feat at the cells the shift zero-fills;
\* boundary_feat at a cell is feat times the number of directions that
\* zero-fill it, so it is zero where all eight neighbours are inside the grid;
\* and when that value is zero in every map, boundary_feat is zero everywhere
\* and forward returns its input.
FlatFeatBoundary ==
  (Returned /\ Flat(feat)) =>
    /\ \A k \in 1..8 : \A i \in Idx(feat.shape) :
         direction_feats[k].d[i] =
           IF ZeroFilled(directions[k], i[3], i[4], feat.shape[3], feat.shape[4])
           THEN feat.d[i] ELSE 0
    /\ \A i \in Idx(feat.shape) :
         boundary_feat.d[i] =
           feat.d[i] * ZeroFilledCount(i[3], i[4], feat.shape[3], feat.shape[4])
    /\ AllZero(feat) => (AllZero(boundary_feat) /\ out = x)

\* A flat, nonzero 3 x 3 feat: the centre of boundary_feat is zero, the corner
\* is five times the value, and the output differs from the input.
FlatFeatBoundaryWitness ==
  /\ Returned /\ Flat(feat)
  /\ feat.shape[3] = 3 /\ feat.shape[4] = 3
  /\ feat.d[<<0, 0, 0, 0>>] = 1
  /\ boundary_feat.d[<<0, 0, 1, 1>>] = 0
  /\ boundary_feat.d[<<0, 0, 0, 0>>] = 5
  /\ out # x

\* C4: forward entered with an input whose channel count is not in_channels
\* ends by raising (the spec's ShapeMismatchError): nothing is returned, no
\* local holds a partial result, and the weights and the input are as before.
ShapeMismatchRejected ==
  [][(pc = "called" /\ x.shape[2] # in_channels) =>
       /\ pc' = "returned"
       /\ outcome' = "raised"
       /\ IsNone(out')
       /\ IsNone(feat') /\ IsNone(boundary_feat') /\ IsNone(refined_feat')
       /\ shifted' = <<>> /\ direction_feats' = <<>>
       /\ conv' = conv /\ depthwise' = depthwise /\ pointwise' = pointwise
       /\ x' = x]_vars

ShapeMismatchRejectedWitness ==
  /\ pc = "returned"
  /\ in_channels = 2 /\ x.shape[2] = 1
  /\ outcome = "raised"
  /\ IsNone(out)

\* C5: constructing with in_channels zero or negative ends by raising (the
\* spec's ConfigurationError), and no instance with weights exists afterwards.
InvalidConfigurationRejected ==
  (pc # "new" /\ in_channels <= 0) =>
    /\ pc = "failed"
    /\ outcome = "raised"
    /\ IsNone(conv) /\ IsNone(depthwise) /\ IsNone(pointwise)

InvalidConfigurationRejectedWitness ==
  /\ pc = "failed"
  /\ in_channels = 0
  /\ outcome = "raised"

\* C6: forward changes neither its input nor any of the three weights (their
\* values and shapes stay), and a call on the input of the instance's first
\* call returns the output of that first call, whatever calls came between.
ForwardReadOnly ==
  [][/\ pc # "new" => (conv' = conv /\ depthwise' = depthwise /\ pointwise' = pointwise)
     /\ pc = "called" =>
          /\ x' = x
          /\ (~IsNone(first.x) /\ first.x = x) => (outcome' = "ok" /\ out' = first.out)]_vars

\* The input of the first call was given again, and the output of the first
\* call (which is not the input itself) came back.
ForwardReadOnlyWitness ==
  /\ Returned
  /\ ~IsNone(first.x) /\ first.x = x
  /\ out = first.out
  /\ out # x

====
